---------------------------- MODULE Spec2Model ----------------------------
(***************************************************************************)
(* Model of src/app.py: the lead propensity scorer                         *)
(* (calculate_propensity_score) and the dashboard script around it         *)
(* (DataFrame.apply, sort_values, the sidebar filters, the metrics, the    *)
(* selectbox and the recommendation tier).                                 *)
(*                                                                         *)
(* Python strings are sequences of one-character strings, so that          *)
(* str.lower(), the `in` substring test and ", ".join() are computed and   *)
(* not assumed.  A cell of the DataFrame is a tagged value: a str, a bool, *)
(* None (a null in the input dict) or NaN (what pd.DataFrame puts where a  *)
(* dict has no such key).                                                  *)
(***************************************************************************)
EXTENDS Integers, Sequences, FiniteSets, TLC

VARIABLES pc, df, shuffled_df, error, min_score, location_search,
          filtered_df, total_leads, hot_leads, top_candidate,
          selected_lead, recommendation

vars == <<pc, df, shuffled_df, error, min_score, location_search,
          filtered_df, total_leads, hot_leads, top_candidate,
          selected_lead, recommendation>>

---------------------------------------------------------------------------
(* Cell values *)

Str(s) == [t |-> "str", s |-> s, b |-> FALSE]

Bool(b) == [t |-> "bool", s |-> <<>>, b |-> b]

None == [t |-> "none", s |-> <<>>, b |-> FALSE]

NaN == [t |-> "nan", s |-> <<>>, b |-> FALSE]

\* Python truth value of a cell: `if row['Published_Paper']:`.  None and ""
\* are false; a float NaN is true.
Truthy(v) ==
  CASE v.t = "bool" -> v.b
    [] v.t = "str"  -> v.s # <<>>
    [] v.t = "none" -> FALSE
    [] v.t = "nan"  -> TRUE

---------------------------------------------------------------------------
(* Python string operations *)

UpperLetters ==
  <<"A","B","C","D","E","F","G","H","I","J","K","L","M",
    "N","O","P","Q","R","S","T","U","V","W","X","Y","Z">>

LowerLetters ==
  <<"a","b","c","d","e","f","g","h","i","j","k","l","m",
    "n","o","p","q","r","s","t","u","v","w","x","y","z">>

UpperSet == {UpperLetters[i] : i \in 1..26}

LowerOf ==
  [c \in UpperSet |-> LowerLetters[CHOOSE i \in 1..26 : UpperLetters[i] = c]]

LowerChar(c) == IF c \in UpperSet THEN LowerOf[c] ELSE c

\* str.lower()
Lower(s) == [i \in 1..Len(s) |-> LowerChar(s[i])]

\* `needle in hay` for two str.
Contains(needle, hay) ==
  \E i \in 0..(Len(hay) - Len(needle)) :
    SubSeq(hay, i + 1, i + Len(needle)) = needle

RECURSIVE Join(_, _)
\* sep.join(parts)
Join(parts, sep) ==
  IF parts = <<>> THEN <<>>
  ELSE IF Len(parts) = 1 THEN parts[1]
  ELSE parts[1] \o sep \o Join(Tail(parts), sep)

---------------------------------------------------------------------------
(* Literals of calculate_propensity_score *)

kw_toxicology == \* "toxicology"
  <<"t","o","x","i","c","o","l","o","g","y">>

kw_safety == \* "safety"
  <<"s","a","f","e","t","y">>

kw_hepatic == \* "hepatic"
  <<"h","e","p","a","t","i","c">>

kw_3d == \* "3d"
  <<"3","d">>

kw_preclinical == \* "preclinical"
  <<"p","r","e","c","l","i","n","i","c","a","l">>

kw_vp == \* "vp"
  <<"v","p">>

kw_director == \* "director"
  <<"d","i","r","e","c","t","o","r">>

kw_head == \* "head"
  <<"h","e","a","d">>

fs_SeriesA == \* "Series A"
  <<"S","e","r","i","e","s"," ","A">>

fs_SeriesB == \* "Series B"
  <<"S","e","r","i","e","s"," ","B">>

tech_invitro == \* "in-vitro"
  <<"i","n","-","v","i","t","r","o">>

hub_Boston == \* "Boston"
  <<"B","o","s","t","o","n">>

hub_Cambridge == \* "Cambridge"
  <<"C","a","m","b","r","i","d","g","e">>

hub_SanFrancisco == \* "San Francisco"
  <<"S","a","n"," ","F","r","a","n","c","i","s","c","o">>

hub_BayArea == \* "Bay Area"
  <<"B","a","y"," ","A","r","e","a">>

hub_Basel == \* "Basel"
  <<"B","a","s","e","l">>

hub_London == \* "London"
  <<"L","o","n","d","o","n">>

reason_Role == \* "High Fit Role (+30)"
  <<"H","i","g","h"," ","F","i","t"," ","R","o","l","e"," ","(","+","3","0",")">>

reason_Funding == \* "Recent Funding Series A/B (+20)"
  <<"R","e","c","e","n","t"," ","F","u","n","d","i","n","g"," ","S","e","r","i","e","s"," ","A","/","B"," ","(","+","2","0",")">>

reason_Tech == \* "Uses Similar Tech (+15)"
  <<"U","s","e","s"," ","S","i","m","i","l","a","r"," ","T","e","c","h"," ","(","+","1","5",")">>

reason_Location == \* "Located in BioHub (+10)"
  <<"L","o","c","a","t","e","d"," ","i","n"," ","B","i","o","H","u","b"," ","(","+","1","0",")">>

reason_Paper == \* "Published Relevant Paper (+25)"
  <<"P","u","b","l","i","s","h","e","d"," ","R","e","l","e","v","a","n","t"," ","P","a","p","e","r"," ","(","+","2","5",")">>

JoinSep == \* ", "
  <<","," ">>


---------------------------------------------------------------------------
(* Strings of the lead records and of the location search *)

t_DirectorOfToxicology == \* "Director of Toxicology"
  <<"D","i","r","e","c","t","o","r"," ","o","f"," ","T","o","x","i","c","o","l","o","g","y">>

t_HeadOfSafetyAssessment == \* "Head of Safety Assessment"
  <<"H","e","a","d"," ","o","f"," ","S","a","f","e","t","y"," ","A","s","s","e","s","s","m","e","n","t">>

t_JuniorScientist == \* "Junior Scientist"
  <<"J","u","n","i","o","r"," ","S","c","i","e","n","t","i","s","t">>

t_VPPreclinical == \* "VP Preclinical"
  <<"V","P"," ","P","r","e","c","l","i","n","i","c","a","l">>

t_LabTechnician == \* "Lab Technician"
  <<"L","a","b"," ","T","e","c","h","n","i","c","i","a","n">>

t_Nonhepatic == \* "Nonhepatic Researcher"
  <<"N","o","n","h","e","p","a","t","i","c"," ","R","e","s","e","a","r","c","h","e","r">>

t_HEAD3D == \* "HEAD OF 3D MODELS"
  <<"H","E","A","D"," ","O","F"," ","3","D"," ","M","O","D","E","L","S">>

f_Public == \* "Public"
  <<"P","u","b","l","i","c">>

f_Seed == \* "Seed"
  <<"S","e","e","d">>

f_SeriesAExtension == \* "Series A Extension"
  <<"S","e","r","i","e","s"," ","A"," ","E","x","t","e","n","s","i","o","n">>

f_seriesaLower == \* "series a"
  <<"s","e","r","i","e","s"," ","a">>

s_UsesInVitroModels == \* "Uses in-vitro models"
  <<"U","s","e","s"," ","i","n","-","v","i","t","r","o"," ","m","o","d","e","l","s">>

s_Unknown == \* "Unknown"
  <<"U","n","k","n","o","w","n">>

s_None == \* "None"
  <<"N","o","n","e">>

s_InVitroUpper == \* "In-Vitro assays"
  <<"I","n","-","V","i","t","r","o"," ","a","s","s","a","y","s">>

l_CambridgeMA == \* "Cambridge, MA"
  <<"C","a","m","b","r","i","d","g","e",","," ","M","A">>

l_SanFranciscoCA == \* "San Francisco, CA"
  <<"S","a","n"," ","F","r","a","n","c","i","s","c","o",","," ","C","A">>

l_AustinTX == \* "Austin, TX"
  <<"A","u","s","t","i","n",","," ","T","X">>

l_NewYorkNY == \* "New York, NY"
  <<"N","e","w"," ","Y","o","r","k",","," ","N","Y">>

l_RemoteCO == \* "Remote (CO)"
  <<"R","e","m","o","t","e"," ","(","C","O",")">>

l_BostonMA == \* "Boston, MA"
  <<"B","o","s","t","o","n",","," ","M","A">>

l_ChicagoIL == \* "Chicago, IL"
  <<"C","h","i","c","a","g","o",","," ","I","L">>

l_bostonLower == \* "boston, ma"
  <<"b","o","s","t","o","n",","," ","m","a">>

q_boston == \* "boston"
  <<"b","o","s","t","o","n">>

q_CA == \* "CA"
  <<"C","A">>


target_roles ==
  <<kw_toxicology, kw_safety, kw_hepatic, kw_3d, kw_preclinical, kw_vp,
    kw_director, kw_head>>

funding_series_ab == <<fs_SeriesA, fs_SeriesB>>

hubs ==
  <<hub_Boston, hub_Cambridge, hub_SanFrancisco, hub_BayArea, hub_Basel,
    hub_London>>

RolePoints == 30

FundingPoints == 20

TechPoints == 15

LocationPoints == 10


\* Variant of PaperPoints.
PaperPointsTypo == 25 + 10

PaperPoints == 25

ScoreCap == 100

---------------------------------------------------------------------------
(* calculate_propensity_score *)

\* The function's locals after `score = 0; reasons = []`; exc names the
\* exception that ended the call, "" while it runs.
Start == [exc |-> "", score |-> 0, reasons |-> <<>>]

Raise(acc, name) == [acc EXCEPT !.exc = name]


\* Variant of Award: the reason is put in front of the list.
AwardPrepend(acc, points, reason) ==
  [acc EXCEPT !.score = @ + points, !.reasons = <<reason>> \o @]

\* Variant of Award: `score -= points`.
AwardSubtract(acc, points, reason) ==
  [acc EXCEPT !.score = @ - points, !.reasons = Append(@, reason)]

Award(acc, points, reason) ==
  [acc EXCEPT !.score = @ + points, !.reasons = Append(@, reason)]

\* any(keyword in row['Title'].lower() for keyword in target_roles):
\* None and NaN have no .lower().
Rule1(row, acc) ==
  IF acc.exc # "" THEN acc
  ELSE IF row.Title.t # "str" THEN Raise(acc, "AttributeError")
  ELSE IF \E k \in 1..Len(target_roles) :
            Contains(target_roles[k], Lower(row.Title.s))
       THEN Award(acc, RolePoints, reason_Role)
       ELSE acc

\* row['Funding_Series'] in ['Series A', 'Series B']: list membership by
\* equality; None and NaN equal neither.
Rule2(row, acc) ==
  IF acc.exc # "" THEN acc
  ELSE IF /\ row.Funding_Series.t = "str"
          /\ \E k \in 1..Len(funding_series_ab) :
               row.Funding_Series.s = funding_series_ab[k]
       THEN Award(acc, FundingPoints, reason_Funding)
       ELSE acc

\* "in-vitro" in row['Tech_Stack']: `in` on None or a float is a TypeError.
Rule3(row, acc) ==
  IF acc.exc # "" THEN acc
  ELSE IF row.Tech_Stack.t # "str" THEN Raise(acc, "TypeError")
  ELSE IF Contains(tech_invitro, row.Tech_Stack.s)
       THEN Award(acc, TechPoints, reason_Tech)
       ELSE acc

\* any(hub in cell for hub in hubs) for a str cell.
AnyHub(cell) == \E k \in 1..Len(hubs) : Contains(hubs[k], cell.s)


\* Variant of Rule4: one award for each of the two cells that names a hub.
Rule4PerField(row, acc) ==
  IF acc.exc # "" THEN acc
  ELSE IF row.Location.t # "str" \/ row.HQ_Location.t # "str"
       THEN Raise(acc, "TypeError")
  ELSE LET first == IF AnyHub(row.Location)
                    THEN [acc EXCEPT !.score = @ + 10,
                                     !.reasons = Append(@, reason_Location)]
                    ELSE acc
       IN IF AnyHub(row.HQ_Location)
          THEN [first EXCEPT !.score = @ + 10,
                             !.reasons = Append(@, reason_Location)]
          ELSE first

\* any(... row['Location'] ...) or any(... row['HQ_Location'] ...): the
\* second any() is evaluated only when the first is False.
Rule4(row, acc) ==
  IF acc.exc # "" THEN acc
  ELSE IF row.Location.t # "str" THEN Raise(acc, "TypeError")
  ELSE IF ~AnyHub(row.Location) /\ row.HQ_Location.t # "str"
       THEN Raise(acc, "TypeError")
  ELSE IF AnyHub(row.Location) \/ AnyHub(row.HQ_Location)
       THEN Award(acc, LocationPoints, reason_Location)
       ELSE acc

\* if row['Published_Paper']:
Rule5(row, acc) ==
  IF acc.exc # "" THEN acc
  ELSE IF Truthy(row.Published_Paper)
       THEN Award(acc, PaperPoints, reason_Paper)
       ELSE acc

\* The locals just before `score = min(score, 100)`.
RawResult(row) ==
  Rule5(row, Rule4(row, Rule3(row, Rule2(row, Rule1(row, Start)))))

Min(a, b) == IF a < b THEN a ELSE b

\* score = min(score, 100); return score, ", ".join(reasons)
calculate_propensity_score(row) ==
  LET acc == RawResult(row) IN
    IF acc.exc # ""
    THEN [exc |-> acc.exc, score |-> 0, breakdown |-> <<>>]
    ELSE [exc |-> "", score |-> Min(acc.score, ScoreCap),
          breakdown |-> Join(acc.reasons, JoinSep)]

---------------------------------------------------------------------------
(* The enriched lead records.  Company, Email and LinkedIn are carried     *)
(* through untouched by every step and are left out.                       *)

Lead(name, title, location, hq, funding, tech, paper) ==
  [Name |-> name, Title |-> title, Location |-> location,
   HQ_Location |-> hq, Funding_Series |-> funding, Tech_Stack |-> tech,
   Published_Paper |-> paper]

SarahChen ==
  Lead("Dr. Sarah Chen", Str(t_DirectorOfToxicology), Str(l_CambridgeMA),
       Str(l_CambridgeMA), Str(fs_SeriesB), Str(s_UsesInVitroModels),
       Bool(TRUE))

MichaelRoss ==
  Lead("Michael Ross", Str(t_HeadOfSafetyAssessment), Str(l_SanFranciscoCA),
       Str(l_SanFranciscoCA), Str(fs_SeriesA), Str(s_Unknown), Bool(FALSE))

JessicaSmith ==
  Lead("Jessica Smith", Str(t_JuniorScientist), Str(l_AustinTX),
       Str(l_NewYorkNY), Str(f_Public), Str(s_None), Bool(FALSE))

DavidKim ==
  Lead("David Kim", Str(t_VPPreclinical), Str(l_RemoteCO), Str(l_BostonMA),
       Str(fs_SeriesB), Str(s_UsesInVitroModels), Bool(TRUE))

EmilyWhite ==
  Lead("Emily White", Str(t_LabTechnician), Str(l_ChicagoIL),
       Str(l_ChicagoIL), Str(f_Seed), Str(s_None), Bool(FALSE))

\* The list `data` of the script.
data == <<SarahChen, MichaelRoss, JessicaSmith, DavidKim, EmilyWhite>>

\* Further leads the enrichment step could hand to the same script: one that
\* scores exactly 80, one with a null HQ_Location next to a hub Location, one
\* with a null Title.
PublicDirector ==
  Lead("Ana Ruiz", Str(t_DirectorOfToxicology), Str(l_BostonMA),
       Str(l_BostonMA), Str(f_Public), Str(s_UsesInVitroModels), Bool(TRUE))

NullHQ ==
  Lead("Omar Haddad", Str(t_JuniorScientist), Str(l_BostonMA), None,
       Str(fs_SeriesA), Str(s_UsesInVitroModels), NaN)

NullTitle ==
  Lead("Li Wei", None, Str(l_BostonMA), Str(l_BostonMA), Str(fs_SeriesA),
       Str(s_UsesInVitroModels), Bool(TRUE))

LeadPool ==
  {SarahChen, MichaelRoss, JessicaSmith, DavidKim, PublicDirector, NullHQ,
   NullTitle}

\* Cell values the scorer is applied to, one lead at a time.
TitleCells ==
  {Str(t_DirectorOfToxicology), Str(t_JuniorScientist), Str(t_Nonhepatic),
   Str(t_HEAD3D), Str(<<>>), None, NaN}

FundingCells ==
  {Str(fs_SeriesA), Str(fs_SeriesB), Str(f_Public), Str(f_SeriesAExtension),
   Str(f_seriesaLower), None, NaN}

TechCells ==
  {Str(s_UsesInVitroModels), Str(s_Unknown), Str(s_InVitroUpper), None, NaN}

LocationCells ==
  {Str(l_CambridgeMA), Str(l_AustinTX), Str(l_bostonLower), None, NaN}

HQCells ==
  {Str(l_BostonMA), Str(l_NewYorkNY), None, NaN}

PaperCells == {Bool(TRUE), Bool(FALSE), None, NaN}

ScorerInputs ==
  {Lead("X", t, l, h, f, s, p) :
     t \in TitleCells, l \in LocationCells, h \in HQCells,
     f \in FundingCells, s \in TechCells, p \in PaperCells}

\* Texts typed into "Search Location"; plain letters, which the regex of
\* str.contains matches as a substring.
SearchPool == {<<>>, q_boston, q_CA}

MaxLeads == 2

\* Leads of the batches that are scored in two orders, and their number.
ShufflePool == {SarahChen, MichaelRoss, NullHQ, NullTitle}

MaxShuffled == 3

SliderMin == 0

SliderMax == 100

SliderDefault == 50

---------------------------------------------------------------------------
(* DataFrame operations *)

\* pd.DataFrame(batch): the rows with a RangeIndex.
DataFrame(batch) ==
  [i \in 1..Len(batch) |-> batch[i] @@ [idx |-> i - 1]]

\* The lead a row was built from.
LeadOf(row) ==
  Lead(row.Name, row.Title, row.Location, row.HQ_Location,
       row.Funding_Series, row.Tech_Stack, row.Published_Paper)

Batches(n) == UNION {[1..k -> LeadPool] : k \in 1..n}

ShuffleBatches(n) == UNION {[1..k -> ShufflePool] : k \in 1..n}

Perms(n) == {p \in [1..n -> 1..n] : \A i, j \in 1..n : p[i] = p[j] => i = j}


\* Variant of ApplyScore: `score` is not reset between rows, so each row
\* starts from the score of the row before it.
ApplyScoreLeaky(frame) ==
  LET res == [i \in 1..Len(frame) |-> calculate_propensity_score(frame[i])]
      bad == {i \in 1..Len(frame) : res[i].exc # ""}
      run[i \in 0..Len(frame)] ==
        IF i = 0 THEN 0 ELSE Min(run[i - 1] + res[i].score, ScoreCap)
  IN IF bad # {}
     THEN [exc |-> res[CHOOSE i \in bad : \A j \in bad : i <= j].exc,
           frame |-> frame]
     ELSE [exc |-> "",
           frame |-> [i \in 1..Len(frame) |->
                        frame[i] @@ [Propensity_Score |-> run[i],
                                     Score_Breakdown |-> res[i].breakdown]]]

\* df.apply(lambda row: pd.Series(calculate_propensity_score(row)), axis=1)
\* assigned to the two new columns: rows are scored in index order and the
\* first exception ends the script.
ApplyScore(frame) ==
  LET res == [i \in 1..Len(frame) |-> calculate_propensity_score(frame[i])]
      bad == {i \in 1..Len(frame) : res[i].exc # ""}
  IN IF bad # {}
     THEN [exc |-> res[CHOOSE i \in bad : \A j \in bad : i <= j].exc,
           frame |-> frame]
     ELSE [exc |-> "",
           frame |-> [i \in 1..Len(frame) |->
                        frame[i] @@ [Propensity_Score |-> res[i].score,
                                     Score_Breakdown |-> res[i].breakdown]]]


\* Variant of IsSortedDesc: ascending=True.
IsSortedAsc(frame) ==
  \A i \in 1..(Len(frame) - 1) :
    frame[i].Propensity_Score <= frame[i + 1].Propensity_Score

IsSortedDesc(frame) ==
  \A i \in 1..(Len(frame) - 1) :
    frame[i].Propensity_Score >= frame[i + 1].Propensity_Score

\* df.sort_values(by='Propensity_Score', ascending=False): the default
\* kind='quicksort' promises no order among equal scores.
SortValues(frame) ==
  {[i \in 1..Len(frame) |-> frame[p[i]]] : p \in
     {q \in Perms(Len(frame)) :
        IsSortedDesc([i \in 1..Len(frame) |-> frame[q[i]]])}}


\* Variant of ScoreMask: `>` for `>=`.
ScoreMaskStrict(frame, threshold) ==
  LET keep(r) == r.Propensity_Score > threshold IN SelectSeq(frame, keep)

\* df[df['Propensity_Score'] >= min_score]
ScoreMask(frame, threshold) ==
  LET keep(r) == r.Propensity_Score >= threshold IN SelectSeq(frame, keep)

\* Series.str.contains(text, case=False) on one cell; a null cell gives NaN,
\* which `|` with a bool mask reads as False.
StrContains(cell, text) ==
  cell.t = "str" /\ Contains(Lower(text), Lower(cell.s))

\* The location mask of lines 144-147.
LocationMask(frame, text) ==
  LET keep(r) == StrContains(r.Location, text)
                 \/ StrContains(r.HQ_Location, text)
  IN SelectSeq(frame, keep)

\* filtered_df as lines 142-147 compute it.
ApplyFilters(frame, threshold, text) ==
  IF text # <<>>
  THEN LocationMask(ScoreMask(frame, threshold), text)
  ELSE ScoreMask(frame, threshold)

HotThreshold == 80


\* Variant of HotLeadsMetric: counted in filtered_df.
HotLeadsFiltered ==
  LET hot(r) == r.Propensity_Score > HotThreshold
  IN Len(SelectSeq(filtered_df, hot))

\* len(df[df['Propensity_Score'] > 80])
HotLeadsMetric ==
  LET hot(r) == r.Propensity_Score > HotThreshold IN Len(SelectSeq(df, hot))

HighThreshold == 80

MediumThreshold == 50

HighPriority == "Recommendation: **High Priority - Contact Immediately**"

MediumPriority == "Recommendation: **Medium Priority - Nurture Campaign**"

LowPriority == "Recommendation: **Low Priority - Do Not Contact**"


\* Variant of Recommendation: `>` for `>=` in the first test.
RecommendationStrict(score) ==
  IF score > HighThreshold THEN <<HighPriority>>
  ELSE IF score >= MediumThreshold THEN <<MediumPriority>>
  ELSE <<LowPriority>>

\* The if / elif / else of lines 191-196: the messages it writes.
Recommendation(score) ==
  IF score >= HighThreshold THEN <<HighPriority>>
  ELSE IF score >= MediumThreshold THEN <<MediumPriority>>
  ELSE <<LowPriority>>

\* filtered_df[filtered_df['Name'] == selected_lead].iloc[0]
LeadDetails ==
  LET match(r) == r.Name = selected_lead[1]
  IN SelectSeq(filtered_df, match)[1]

---------------------------------------------------------------------------
(* The script, top to bottom *)

NoShuffle == [state |-> "unused", rows |-> <<>>]

NoTop == [Name |-> "", Points |-> 0]

\* The widgets and outputs before the script reaches them.
Untouched ==
  /\ error = ""
  /\ min_score = SliderDefault
  /\ location_search = <<>>
  /\ filtered_df = <<>>
  /\ total_leads = 0
  /\ hot_leads = 0
  /\ top_candidate = NoTop
  /\ selected_lead = <<>>
  /\ recommendation = <<>>

\* After df = pd.DataFrame(data): the script's own list, or a batch of the
\* same shape.
Init ==
  /\ pc = "apply"
  /\ df \in {DataFrame(data)} \cup {DataFrame(b) : b \in Batches(MaxLeads)}
  /\ shuffled_df = NoShuffle
  /\ Untouched

\* Line 127.
Apply ==
  /\ pc = "apply"
  /\ LET out == ApplyScore(df) IN
       /\ df' = out.frame
       /\ error' = out.exc
       /\ pc' = IF out.exc = "" THEN "sort" ELSE "crashed"
  /\ UNCHANGED <<shuffled_df, min_score, location_search, filtered_df,
                 total_leads, hot_leads, top_candidate, selected_lead,
                 recommendation>>

\* Line 130.
Sort ==
  /\ pc = "sort"
  /\ df' \in SortValues(df)
  /\ pc' = "filter"
  /\ UNCHANGED <<shuffled_df, error, min_score, location_search, filtered_df,
                 total_leads, hot_leads, top_candidate, selected_lead,
                 recommendation>>

\* Lines 136-147, for what the slider and the text input hold.
Filter ==
  /\ pc = "filter"
  /\ \E threshold \in SliderMin..SliderMax, text \in SearchPool :
       /\ min_score' = threshold
       /\ location_search' = text
       /\ filtered_df' = ApplyFilters(df, threshold, text)
  /\ pc' = "metrics"
  /\ UNCHANGED <<df, shuffled_df, error, total_leads, hot_leads,
                 top_candidate, selected_lead, recommendation>>

\* Lines 152-155.
Metrics ==
  /\ pc = "metrics"
  /\ total_leads' = Len(df)
  /\ hot_leads' = HotLeadsMetric
  /\ top_candidate' = [Name |-> df[1].Name, Points |-> df[1].Propensity_Score]
  /\ pc' = "select"
  /\ UNCHANGED <<df, shuffled_df, error, min_score, location_search,
                 filtered_df, selected_lead, recommendation>>

\* Line 183: the selectbox over filtered_df['Name'] returns one of its
\* options, or None when there is none.
Select ==
  /\ pc = "select"
  /\ IF filtered_df = <<>>
     THEN selected_lead' = <<>>
     ELSE \E i \in 1..Len(filtered_df) :
            selected_lead' = <<filtered_df[i].Name>>
  /\ pc' = "explain"
  /\ UNCHANGED <<df, shuffled_df, error, min_score, location_search,
                 filtered_df, total_leads, hot_leads, top_candidate,
                 recommendation>>

\* Lines 185-196.
Explain ==
  /\ pc = "explain"
  /\ recommendation' =
       IF selected_lead # <<>> /\ selected_lead[1] # ""
       THEN Recommendation(LeadDetails.Propensity_Score)
       ELSE <<>>
  /\ pc' = "done"
  /\ UNCHANGED <<df, shuffled_df, error, min_score, location_search,
                 filtered_df, total_leads, hot_leads, top_candidate,
                 selected_lead>>

Next == Apply \/ Sort \/ Filter \/ Metrics \/ Select \/ Explain

Spec == Init /\ [][Next]_vars

---------------------------------------------------------------------------
(* The scorer alone: one lead, every combination of cell values *)

InitScore ==
  /\ pc = "apply"
  /\ df \in {DataFrame(<<l>>) : l \in ScorerInputs}
  /\ shuffled_df = NoShuffle
  /\ Untouched

SpecScore == InitScore /\ [][Apply]_vars

---------------------------------------------------------------------------
(* The recommendation alone: one selected lead with any score *)

ScoredRow(s) ==
  DataFrame(<<JessicaSmith>>)[1]
    @@ [Propensity_Score |-> s, Score_Breakdown |-> <<>>]

InitTier ==
  /\ pc = "explain"
  /\ \E s \in SliderMin..SliderMax :
       /\ df = <<ScoredRow(s)>>
       /\ filtered_df = <<ScoredRow(s)>>
       /\ top_candidate = [Name |-> JessicaSmith.Name, Points |-> s]
       /\ hot_leads = IF s > HotThreshold THEN 1 ELSE 0
  /\ shuffled_df = NoShuffle
  /\ error = ""
  /\ min_score = SliderMin
  /\ location_search = <<>>
  /\ total_leads = 1
  /\ selected_lead = <<JessicaSmith.Name>>
  /\ recommendation = <<>>

SpecTier == InitTier /\ [][Explain]_vars

---------------------------------------------------------------------------
(* Two runs of line 127 on the same batch in two orders *)

Shuffles(batch) ==
  {[i \in 1..Len(batch) |-> batch[p[i]]] : p \in Perms(Len(batch))}

InitShuffle ==
  /\ pc = "apply"
  /\ \E b \in ShuffleBatches(MaxShuffled) :
       /\ df = DataFrame(b)
       /\ \E s \in Shuffles(b) :
            shuffled_df = [state |-> "apply", rows |-> DataFrame(s)]
  /\ Untouched

ApplyShuffled ==
  /\ shuffled_df.state = "apply"
  /\ LET out == ApplyScore(shuffled_df.rows) IN
       shuffled_df' = [state |-> IF out.exc = "" THEN "sort" ELSE "crashed",
                       rows |-> out.frame]
  /\ UNCHANGED <<pc, df, error, min_score, location_search, filtered_df,
                 total_leads, hot_leads, top_candidate, selected_lead,
                 recommendation>>

NextShuffle == Apply \/ ApplyShuffled

SpecShuffle == InitShuffle /\ [][NextShuffle]_vars

---------------------------------------------------------------------------
(* What the properties below compare the script against *)

RoleHolds(l) ==
  /\ l.Title.t = "str"
  /\ \E k \in {kw_toxicology, kw_safety, kw_hepatic, kw_3d, kw_preclinical,
               kw_vp, kw_director, kw_head} : Contains(k, Lower(l.Title.s))

FundingHolds(l) == l.Funding_Series \in {Str(fs_SeriesA), Str(fs_SeriesB)}

TechHolds(l) == l.Tech_Stack.t = "str" /\ Contains(tech_invitro, l.Tech_Stack.s)

HubIn(cell) ==
  /\ cell.t = "str"
  /\ \E h \in {hub_Boston, hub_Cambridge, hub_SanFrancisco, hub_BayArea,
               hub_Basel, hub_London} : Contains(h, cell.s)

HubHolds(l) == HubIn(l.Location) \/ HubIn(l.HQ_Location)

PaperHolds(l) == Truthy(l.Published_Paper)

\* Whether rule k holds of lead l; the rules in their fixed order are
\* 1 Role, 2 Funding, 3 Tech, 4 Location, 5 Publication.
Holds(l, k) ==
  CASE k = 1 -> RoleHolds(l)
    [] k = 2 -> FundingHolds(l)
    [] k = 3 -> TechHolds(l)
    [] k = 4 -> HubHolds(l)
    [] k = 5 -> PaperHolds(l)

RulePoints == <<30, 20, 15, 10, 25>>

RuleReasons ==
  <<reason_Role, reason_Funding, reason_Tech, reason_Location, reason_Paper>>

Triggered(l) == {k \in 1..5 : Holds(l, k)}

RECURSIVE SumPoints(_)
SumPoints(ks) ==
  IF ks = {} THEN 0
  ELSE LET k == CHOOSE x \in ks : TRUE
       IN RulePoints[k] + SumPoints(ks \ {k})

\* The reasons of the rules ks, in the fixed order.
ReasonsOf(ks) ==
  LET hit(k) == k \in ks
      rs == SelectSeq(<<1, 2, 3, 4, 5>>, hit)
  IN [i \in 1..Len(rs) |-> RuleReasons[rs[i]]]

\* How often needle occurs in hay.
Occurrences(needle, hay) ==
  Cardinality({i \in 0..(Len(hay) - Len(needle)) :
                 SubSeq(hay, i + 1, i + Len(needle)) = needle})

\* The number of reasons in a joined breakdown.
Entries(breakdown) ==
  IF breakdown = <<>> THEN 0 ELSE 1 + Occurrences(JoinSep, breakdown)

Scored == pc \notin {"apply", "crashed"}

Filtered == pc \in {"metrics", "select", "explain", "done"}

Measured == pc \in {"select", "explain", "done"}

Indexes(frame) == {frame[i].idx : i \in 1..Len(frame)}

---------------------------------------------------------------------------
(* C1: every lead the scorer returns for gets the sum of the points of     *)
(* exactly the rules whose predicate holds (Role 30, Funding 20, Tech 15,  *)
(* Location 10, Publication 25), capped at 100, and a breakdown with one   *)
(* reason per triggered rule, in the order Role, Funding, Tech, Location,  *)
(* Publication.                                                            *)
C1_ScoreIsCappedSumOfTriggeredRules ==
  Scored =>
    \A i \in 1..Len(df) :
      LET ks == Triggered(LeadOf(df[i])) IN
        /\ df[i].Propensity_Score = Min(SumPoints(ks), 100)
        /\ df[i].Score_Breakdown = Join(ReasonsOf(ks), JoinSep)
        /\ Entries(df[i].Score_Breakdown) = Cardinality(ks)

\* Role, Funding and Location trigger, Tech and Publication do not.
C1_Witness ==
  /\ pc = "sort"
  /\ df[1].Propensity_Score = 60
  /\ Triggered(LeadOf(df[1])) = {1, 2, 4}
  /\ Entries(df[1].Score_Breakdown) = 3

(* C2: wherever a propensity score is stored, filtered on or shown it is   *)
(* an integer from 0 to 100.                                               *)
C2_ScoreInRange ==
  /\ Scored => \A i \in 1..Len(df) : df[i].Propensity_Score \in 0..100
  /\ \A i \in 1..Len(filtered_df) : filtered_df[i].Propensity_Score \in 0..100
  /\ top_candidate.Points \in 0..100
  /\ recommendation # <<>> => LeadDetails.Propensity_Score \in 0..100

C2_Witness ==
  /\ pc = "done"
  /\ Len(filtered_df) = 2
  /\ filtered_df[1].Propensity_Score = 100
  /\ filtered_df[2].Propensity_Score = 0
  /\ top_candidate.Points = 100
  /\ recommendation # <<>>

\* A null or absent cell read as "" for a string and False for the boolean.
CoerceStr(cell) == IF cell.t = "str" THEN cell ELSE Str(<<>>)

CoerceBool(cell) == IF cell.t = "bool" THEN cell ELSE Bool(FALSE)

Coerced(l) ==
  Lead(l.Name, CoerceStr(l.Title), CoerceStr(l.Location),
       CoerceStr(l.HQ_Location), CoerceStr(l.Funding_Series),
       CoerceStr(l.Tech_Stack), CoerceBool(l.Published_Paper))

(* C3: the scorer never fails; a lead with null or absent cells gets the   *)
(* result of the same lead with "" in place of each missing string and     *)
(* False in place of a missing boolean.                                    *)
C3_NeverFailsOnMissingFields ==
  /\ pc # "crashed"
  /\ Scored =>
       \A i \in 1..Len(df) :
         LET ks == Triggered(Coerced(LeadOf(df[i]))) IN
           /\ df[i].Propensity_Score = Min(SumPoints(ks), 100)
           /\ df[i].Score_Breakdown = Join(ReasonsOf(ks), JoinSep)

(* C4: for a selected lead exactly one recommendation is written, decided  *)
(* by the score alone: High Priority from 80 up, Medium Priority from 50   *)
(* to 79, Low Priority below 50.                                           *)
C4_TierByScore ==
  (pc = "done" /\ selected_lead # <<>>) =>
    LET s == LeadDetails.Propensity_Score IN
      /\ Len(recommendation) = 1
      /\ s >= 80 => recommendation[1] = HighPriority
      /\ (50 <= s /\ s < 80) => recommendation[1] = MediumPriority
      /\ s < 50 => recommendation[1] = LowPriority
      /\ s = 80 => recommendation[1] = HighPriority
      /\ s = 79 => recommendation[1] = MediumPriority
      /\ s = 50 => recommendation[1] = MediumPriority
      /\ s = 49 => recommendation[1] = LowPriority

C4_Witness ==
  /\ pc = "done"
  /\ LeadDetails.Propensity_Score = 79
  /\ recommendation = <<MediumPriority>>

\* Whether the search text occurs, letter case aside, in the location or the
\* headquarters location of row r.
LocationMatches(r, text) ==
  \E cell \in {r.Location, r.HQ_Location} :
    cell.t = "str" /\ Contains(Lower(text), Lower(cell.s))

AtLeast(threshold) ==
  {df[i].idx : i \in {j \in 1..Len(df) : df[j].Propensity_Score >= threshold}}

IsPermutationOf(after, before) ==
  /\ Len(after) = Len(before)
  /\ \E p \in Perms(Len(before)) : after = [i \in 1..Len(before) |-> before[p[i]]]

NonIncreasing(frame) ==
  \A i, j \in 1..Len(frame) :
    i < j => frame[i].Propensity_Score >= frame[j].Propensity_Score

\* The place in frame of the row with the index label of r.
Position(frame, r) == CHOOSE j \in 1..Len(frame) : frame[j].idx = r.idx

KeepsOrderOf(part, frame) ==
  /\ \A a \in 1..Len(part) : \E j \in 1..Len(frame) : part[a] = frame[j]
  /\ \A a, b \in 1..Len(part) :
       a < b => Position(frame, part[a]) < Position(frame, part[b])

RankingStep ==
  /\ pc = "sort" =>
       /\ IsPermutationOf(df', df)
       /\ NonIncreasing(df')
       /\ \A i \in 1..Len(df) :
            df'[1].Propensity_Score >= df[i].Propensity_Score
  /\ pc = "filter" =>
       /\ df' = df
       /\ KeepsOrderOf(filtered_df', df)
  /\ pc = "metrics" =>
       /\ df' = df
       /\ top_candidate'.Name = df[1].Name
       /\ \A i \in 1..Len(df) :
            top_candidate'.Points >= df[i].Propensity_Score
  /\ pc \in {"select", "explain"} => df' = df /\ filtered_df' = filtered_df

(* C6: the ranking step only reorders the scored rows (none lost,          *)
(* duplicated or re-scored) into non-increasing score, so the first row,   *)
(* shown as Top Candidate, has the greatest score; the filter step keeps   *)
(* the ranked rows in their ranked order.                                  *)
C6_RankingKeepsRowsAndOrders == [][RankingStep]_vars

\* The script's own five leads, ranked, filtered and shown.
C6_Witness ==
  /\ pc = "done"
  /\ Len(df) = 5
  /\ df[1].idx = 0
  /\ df[2].idx = 3
  /\ df[3].idx = 1
  /\ top_candidate.Name = SarahChen.Name
  /\ Len(filtered_df) = 3
  /\ filtered_df[3].idx = 1

Results(frame) ==
  {<<LeadOf(frame[i]), frame[i].Propensity_Score, frame[i].Score_Breakdown>> :
     i \in 1..Len(frame)}

C8_CapNeverBinds ==
  Scored =>
    \A i \in 1..Len(df) :
      LET raw == RawResult(LeadOf(df[i])).score
          ks == Triggered(LeadOf(df[i]))
      IN
        /\ raw <= 100
        /\ SumPoints(ks) <= 100
        /\ df[i].Propensity_Score = raw
        /\ df[i].Propensity_Score = 100 <=> ks = 1..5
        /\ df[i].Propensity_Score = 100 => Entries(df[i].Score_Breakdown) = 5

C8_Witness ==
  /\ pc = "sort"
  /\ df[1].Propensity_Score = 100
  /\ Triggered(LeadOf(df[1])) = 1..5
  /\ Entries(df[1].Score_Breakdown) = 5

(* C9: the location rule adds 10 points and one "Located in BioHub (+10)"  *)
(* reason when the location or the headquarters location contains a hub    *)
(* name, and nothing otherwise: once, also when both contain one.          *)
C9_HubAwardedOnce ==
  Scored =>
    \A i \in 1..Len(df) :
      LET l == LeadOf(df[i])
          others == SumPoints(Triggered(l) \ {4})
      IN /\ df[i].Propensity_Score - others = IF HubHolds(l) THEN 10 ELSE 0
         /\ Occurrences(reason_Location, df[i].Score_Breakdown)
              = IF HubHolds(l) THEN 1 ELSE 0

\* A hub in both cells.
C9_Witness ==
  /\ pc = "sort"
  /\ HubIn(df[1].Location)
  /\ HubIn(df[1].HQ_Location)
  /\ df[1].Propensity_Score = 10
  /\ df[1].Score_Breakdown = reason_Location

RowsAbove80 == {i \in 1..Len(df) : df[i].Propensity_Score > 80}

RowsExactly80 == {i \in 1..Len(df) : df[i].Propensity_Score = 80}

RowsLabelledHigh ==
  {i \in 1..Len(df) : Recommendation(df[i].Propensity_Score) = <<HighPriority>>}

(* C10: the Hot Leads metric is the number of rows of the whole ranked set *)
(* scoring above 80, whatever the filters hold; it is at most the number   *)
(* of rows the recommendation labels High Priority, and smaller by the     *)
(* number of rows scoring exactly 80.                                      *)
C10_HotLeadsCountsAbove80Unfiltered ==
  Measured =>
    /\ hot_leads = Cardinality(RowsAbove80)
    /\ hot_leads <= Cardinality(RowsLabelledHigh)
    /\ Cardinality(RowsLabelledHigh) - hot_leads = Cardinality(RowsExactly80)

\* A lead scoring exactly 80 beside one scoring 100, with a search that
\* filters every lead out.
C10_Witness ==
  /\ pc = "done"
  /\ filtered_df = <<>>
  /\ hot_leads = 1
  /\ Cardinality(RowsLabelledHigh) = 2
  /\ Cardinality(RowsExactly80) = 1

===========================================================================
